---- MODULE Spec2Model ----
(***************************************************************************)
(* WarehouseInstance (src/src/warehouseLoader.hpp, WarehouseLoader.cpp)    *)
(* as it is reached from Python through the class that bindings.cpp       *)
(* registers under the name "WarehouseLoader": one object, built once by  *)
(* the six-argument constructor, then printed by affichage() any number   *)
(* of times.                                                               *)
(*                                                                         *)
(* Representation.  vector<int> is a sequence of integers, vector<vector> *)
(* a sequence of sequences.  A std::string is the sequence of its         *)
(* character codes, so that std::less<string> is lexicographic order.     *)
(* map<string,double> is a function from keys to values; a double is      *)
(* written in tenths (185 is 18.5).  The Python dict handed to the        *)
(* binding is the sequence of its (key, value) items in insertion order.  *)
(* Standard output is the sequence of the texts written, one text per     *)
(* call of affichage, each text a sequence of lines.                      *)
(***************************************************************************)
EXTENDS Integers, Sequences, FiniteSets

VARIABLES
    build,            \* what this build yields when the int sum overflows
    args,             \* the caller's six arguments (the caller owns them)
    inits,            \* number of times the constructor has run on the object
    loaded,           \* TRUE once the object holds a constructed instance
    adjacency,        \* WarehouseInstance::adjacency
    rack_capacity,    \* WarehouseInstance::rack_capacity
    product_circuit,  \* WarehouseInstance::product_circuit
    aisles_racks,     \* WarehouseInstance::aisles_racks
    orders,           \* WarehouseInstance::orders
    metadata,         \* WarehouseInstance::metadata
    out,              \* standard output: the texts written so far
    calls,            \* number of affichage calls made
    err               \* error outcome of the last operation ("none": it returned)

fields == <<adjacency, rack_capacity, product_circuit, aisles_racks, orders, metadata>>
vars == <<build, args, inits, loaded, adjacency, rack_capacity, product_circuit,
          aisles_racks, orders, metadata, out, calls, err>>

----------------------------------------------------------------------------
(* Bounds of the exploration *)

MaxRacks == 2      \* longest rack_capacity tried
MaxMeta == 2       \* most metadata entries tried
MaxCalls == 2      \* most affichage calls made on the object

----------------------------------------------------------------------------
(* int is 32 bits wide.  The exact sum of several ints does not fit in  *)
(* one, so exact sums are kept as a pair <<hi, lo>> standing for        *)
(* hi * 65536 + lo with lo in 0..65535.                                  *)

INT_MAX == 2147483647

Wide(x) == <<x \div 65536, x % 65536>>

WAdd(a, b) ==
    LET lo == a[2] + b[2]
    IN  <<a[1] + b[1] + (lo \div 65536), lo % 65536>>

\* the pair stands for a value in [-INT_MAX - 1, INT_MAX]
InInt(w) == -32768 <= w[1] /\ w[1] <= 32767

\* the int a pair in [-INT_MAX - 1, INT_MAX] stands for
ToInt(w) == w[1] * 65536 + w[2]

\* reduction modulo 2^32 into [-INT_MAX - 1, INT_MAX]: two's complement wrap-around
Wrap32(w) == <<((w[1] + 32768) % 65536) - 32768, w[2]>>

RECURSIVE Sum(_)
\* the mathematical sum of a sequence of ints, exact
Sum(s) == IF s = <<>> THEN Wide(0) ELSE WAdd(Sum(SubSeq(s, 1, Len(s) - 1)), Wide(s[Len(s)]))

\* some partial sum init + s[1] + ... + s[k] leaves the range of int
Overflows(s, init) == \E k \in 1..Len(s) : ~InInt(WAdd(Wide(init), Sum(SubSeq(s, 1, k))))

RECURSIVE AccumulateWrap(_, _)
\* the left fold acc = acc + *it over the range, every addition wrapped
AccumulateWrap(s, init) ==
    IF s = <<>> THEN init
    ELSE AccumulateWrap(Tail(s), ToInt(Wrap32(WAdd(Wide(init), Wide(Head(s))))))

\* The builds.  Signed overflow is undefined, so what a run prints when a
\* partial sum overflows is fixed by the build and not by the source:
\* wrap-around (what an unsanitised c++ -O3 build computes), or some other
\* int, for which the largest one stands.
Builds == {"wrap", "int_max"}

OverflowValue(b, s, init) ==
    CASE b = "wrap"    -> AccumulateWrap(s, init)
      [] b = "int_max" -> INT_MAX

\* a mutant of Accumulate: the fold skips negative entries
AccumulateSkipNegative(b, s, init) ==
    LET pos == SelectSeq(s, LAMBDA x : x >= 0)
    IN  IF Overflows(pos, init) THEN OverflowValue(b, pos, init)
        ELSE ToInt(WAdd(Wide(init), Sum(pos)))

\* std::accumulate(first, last, 0): T is int, the sum is an int
Accumulate(b, s, init) ==
    IF Overflows(s, init) THEN OverflowValue(b, s, init)
    ELSE ToInt(WAdd(Wide(init), Sum(s)))

----------------------------------------------------------------------------
(* std::string order and std::map *)

Min(a, b) == IF a < b THEN a ELSE b

\* std::less<std::string>: lexicographic order on the character codes
LexLess(a, b) ==
    \E k \in 0..Min(Len(a), Len(b)) :
        /\ \A j \in 1..k : a[j] = b[j]
        /\ \/ k = Len(a) /\ k < Len(b)
           \/ k < Len(a) /\ k < Len(b) /\ a[k + 1] < b[k + 1]

\* the dict -> std::map conversion of the binding: one entry per key
MapFromDict(items) ==
    [k \in {items[i][1] : i \in DOMAIN items} |->
        items[CHOOSE i \in DOMAIN items :
                 items[i][1] = k /\ \A j \in 1..(i - 1) : items[j][1] # k][2]]

RECURSIVE InOrder(_)
\* the keys of a std::map in iteration order: ascending under LexLess
InOrder(keys) ==
    IF keys = {} THEN <<>>
    ELSE LET k == CHOOSE x \in keys : \A y \in keys \ {x} : LexLess(x, y)
         IN  <<k>> \o InOrder(keys \ {k})

RECURSIVE InReverseOrder(_)
\* a mutant of InOrder: the map ordered by std::greater
InReverseOrder(keys) ==
    IF keys = {} THEN <<>>
    ELSE LET k == CHOOSE x \in keys : \A y \in keys \ {x} : LexLess(y, x)
         IN  <<k>> \o InReverseOrder(keys \ {k})

\* a mutant of MapKeys: the loop visits the keys in descending order
MapKeysDescending(m) == InReverseOrder(DOMAIN m)

\* for (const auto& kv : metadata): the keys as the loop visits them
MapKeys(m) == InOrder(DOMAIN m)

----------------------------------------------------------------------------
(* The text affichage writes *)

Line(text, key, vals) == [text |-> text, key |-> key, vals |-> vals]

\* "WarehouseInstance(num_racks=.., capacity=.., num_products=.., num_orders=..)"
HeaderLine(b, rc, pc, os) ==
    Line("WarehouseInstance", <<>>, <<Len(rc), Accumulate(b, rc, 0), Len(pc), Len(os)>>)

MetadataLines(m) ==
    IF DOMAIN m = {} THEN <<>>
    ELSE <<Line("Metadata:", <<>>, <<>>)>> \o
         [i \in 1..Cardinality(DOMAIN m) |->
             Line("  - ", MapKeys(m)[i], <<m[MapKeys(m)[i]]>>)]

Text(b, rc, pc, os, m) == <<HeaderLine(b, rc, pc, os)>> \o MetadataLines(m)

----------------------------------------------------------------------------
(* The arguments a caller passes *)

SeqsUpTo(S, n) == UNION {[1..k -> S] : k \in 0..n}

CapacityValues == {-5, 10, 20, INT_MAX}
RackCapacityInputs == SeqsUpTo(CapacityValues, MaxRacks)

KeyA == <<97>>          \* "a"
KeyAB == <<97, 98>>     \* "ab"
KeyB == <<98>>          \* "b"
MetaKeys == {KeyA, KeyAB, KeyB}
MetaValues == {185, 20} \* 18.5 and 2.0

\* dicts: item sequences with pairwise distinct keys
MetadataInputs ==
    {d \in SeqsUpTo(MetaKeys \X MetaValues, MaxMeta) :
        \A i, j \in DOMAIN d : i # j => d[i][1] # d[j][1]}

Layout(a, pc, ar, os) ==
    [adjacency |-> a, product_circuit |-> pc, aisles_racks |-> ar, orders |-> os]

\* adjacency, product_circuit, aisles_racks and orders, tried together:
\* the 2-rack example; all empty; a ragged adjacency; an order naming
\* product 1 of 1; rack 1 in two aisles; one rack, three products, one order
LayoutInputs ==
    { Layout(<<<<0, 1>>, <<1, 0>>>>, <<0, 1>>, <<<<0>>, <<1>>>>, <<<<0, 1>>, <<1>>>>),
      Layout(<<>>, <<>>, <<>>, <<>>),
      Layout(<<<<0, 1>>, <<1>>>>, <<0, 1>>, <<<<0>>, <<1>>>>, <<<<0, 1>>, <<1>>>>),
      Layout(<<<<0, 1>>, <<1, 0>>>>, <<0>>, <<<<0>>, <<1>>>>, <<<<0>>, <<1>>, <<0>>>>),
      Layout(<<<<0, 1>>, <<1, 0>>>>, <<0, 1>>, <<<<0, 1>>, <<1>>>>, <<<<0, 1>>, <<1>>>>),
      Layout(<<<<0>>>>, <<0, 1, 0>>, <<<<0>>>>, <<<<1>>>>) }

EmptyArgs == [adjacency |-> <<>>, rack_capacity |-> <<>>, product_circuit |-> <<>>,
           aisles_racks |-> <<>>, orders |-> <<>>, metadata |-> <<>>]

----------------------------------------------------------------------------
(* Operations *)

Init ==
    /\ build \in Builds
    /\ args = EmptyArgs
    /\ inits = 0
    /\ loaded = FALSE
    /\ adjacency = <<>>
    /\ rack_capacity = <<>>
    /\ product_circuit = <<>>
    /\ aisles_racks = <<>>
    /\ orders = <<>>
    /\ metadata = <<>>
    /\ out = <<>>
    /\ calls = 0
    /\ err = "none"

\* a mutant of ConstructWith: two members of the same type initialised
\* from each other's argument
ConstructSwapped(l, rc, md) ==
    /\ ~loaded
    /\ args' = [adjacency |-> l.adjacency, rack_capacity |-> rc,
                product_circuit |-> l.product_circuit,
                aisles_racks |-> l.aisles_racks, orders |-> l.orders,
                metadata |-> md]
    /\ adjacency' = l.adjacency
    /\ rack_capacity' = l.product_circuit
    /\ product_circuit' = rc
    /\ aisles_racks' = l.aisles_racks
    /\ orders' = l.orders
    /\ metadata' = MapFromDict(md)
    /\ inits' = inits + 1
    /\ loaded' = TRUE
    /\ err' = "none"
    /\ UNCHANGED <<build, out, calls>>

\* WarehouseInstance::WarehouseInstance on the arguments given: every
\* member is copy-initialised from its argument; nothing is checked and
\* there is no failing path
ConstructWith(l, rc, md) ==
    /\ ~loaded
    /\ args' = [adjacency |-> l.adjacency, rack_capacity |-> rc,
                product_circuit |-> l.product_circuit,
                aisles_racks |-> l.aisles_racks, orders |-> l.orders,
                metadata |-> md]
    /\ adjacency' = l.adjacency
    /\ rack_capacity' = rc
    /\ product_circuit' = l.product_circuit
    /\ aisles_racks' = l.aisles_racks
    /\ orders' = l.orders
    /\ metadata' = MapFromDict(md)
    /\ inits' = inits + 1
    /\ loaded' = TRUE
    /\ err' = "none"
    /\ UNCHANGED <<build, out, calls>>

\* a mutant of Construct: the constructor runs again on an object that
\* already holds an instance and rebuilds it
ConstructAgain ==
    \E l \in LayoutInputs, rc \in RackCapacityInputs, md \in MetadataInputs :
        /\ args' = [adjacency |-> l.adjacency, rack_capacity |-> rc,
                    product_circuit |-> l.product_circuit,
                    aisles_racks |-> l.aisles_racks, orders |-> l.orders,
                    metadata |-> md]
        /\ adjacency' = l.adjacency
        /\ rack_capacity' = rc
        /\ product_circuit' = l.product_circuit
        /\ aisles_racks' = l.aisles_racks
        /\ orders' = l.orders
        /\ metadata' = MapFromDict(md)
        /\ inits' = inits + 1
        /\ loaded' = TRUE
        /\ err' = "none"
        /\ UNCHANGED <<build, out, calls>>

\* py::init<...>() of the class registered as "WarehouseLoader": the
\* constructor runs once per object, on whatever the caller passes
Construct ==
    /\ ~loaded
    /\ \E l \in LayoutInputs, rc \in RackCapacityInputs, md \in MetadataInputs :
           ConstructWith(l, rc, md)

\* a mutant of Affichage: the entries are removed from the map as they
\* are printed
AffichageConsumesMetadata ==
    /\ loaded
    /\ calls < MaxCalls
    /\ out' = Append(out, Text(build, rack_capacity, product_circuit, orders, metadata))
    /\ calls' = calls + 1
    /\ err' = "none"
    /\ metadata' = <<>>
    /\ UNCHANGED <<build, args, inits, loaded, adjacency, rack_capacity,
                   product_circuit, aisles_racks, orders>>

\* a mutant of Affichage: the capacities are summed by popping them
AffichageDrainsCapacity ==
    /\ loaded
    /\ calls < MaxCalls
    /\ out' = Append(out, Text(build, rack_capacity, product_circuit, orders, metadata))
    /\ calls' = calls + 1
    /\ err' = "none"
    /\ rack_capacity' = <<>>
    /\ UNCHANGED <<build, args, inits, loaded, adjacency, product_circuit,
                   aisles_racks, orders, metadata>>

\* WarehouseInstance::affichage() const: one text to standard output
Affichage ==
    /\ loaded
    /\ calls < MaxCalls
    /\ out' = Append(out, Text(build, rack_capacity, product_circuit, orders, metadata))
    /\ calls' = calls + 1
    /\ err' = "none"
    /\ UNCHANGED <<build, args, inits, loaded, fields>>

\* a mutant of CallerClearsArgs: the members refer to the caller's
\* containers instead of holding copies of them
CallerClearsShared ==
    /\ loaded
    /\ args # EmptyArgs
    /\ args' = EmptyArgs
    /\ adjacency' = <<>>
    /\ rack_capacity' = <<>>
    /\ product_circuit' = <<>>
    /\ aisles_racks' = <<>>
    /\ orders' = <<>>
    /\ metadata' = <<>>
    /\ UNCHANGED <<build, inits, loaded, out, calls, err>>

\* the caller empties the containers it passed: the constructor took them
\* by const reference and copied them, so the members are not touched
CallerClearsArgs ==
    /\ loaded
    /\ args # EmptyArgs
    /\ args' = EmptyArgs
    /\ UNCHANGED <<build, inits, loaded, fields, out, calls, err>>

Next == Construct \/ Affichage \/ CallerClearsArgs

Spec == Init /\ [][Next]_vars

----------------------------------------------------------------------------
(* Vocabulary of the properties *)

\* the header numbers of a text: <<num_racks, capacity, num_products, num_orders>>
Header(t) == t[1].vals

\* the lines of a text after "Metadata:"
EntryLines(t) == 3..Len(t)

\* every partial sum 0 + s[1] + ... + s[k] is an int
PartialSumsFit(s) == \A k \in 0..Len(s) : InInt(Sum(SubSeq(s, 1, k)))

Square(a) == \A i \in DOMAIN a : Len(a[i]) = Len(a)

NonNegative(rc) == \A i \in DOMAIN rc : rc[i] >= 0

RackIdsInRange(ar, rc) ==
    \A i \in DOMAIN ar : \A j \in DOMAIN ar[i] : 0 <= ar[i][j] /\ ar[i][j] < Len(rc)

NoRackInTwoAisles(ar) ==
    \A i, j \in DOMAIN ar :
        i # j => \A x \in DOMAIN ar[i], y \in DOMAIN ar[j] : ar[i][x] # ar[j][y]

ProductIdsInRange(os, pc) ==
    \A i \in DOMAIN os : \A j \in DOMAIN os[i] : 0 <= os[i][j] /\ os[i][j] < Len(pc)

\* the step is a load: the constructor runs
LoadStep == inits' # inits

----------------------------------------------------------------------------
(* Properties *)

\* C1: every text affichage writes reports num_racks = length of
\* rack_capacity, capacity = the sum of all entries of rack_capacity,
\* num_products = length of product_circuit, num_orders = length of orders.
C1_SummaryCounts ==
    \A i \in DOMAIN out :
        /\ Header(out[i])[1] = Len(rack_capacity)
        /\ InInt(Sum(rack_capacity))
        /\ Header(out[i])[2] = ToInt(Sum(rack_capacity))
        /\ Header(out[i])[3] = Len(product_circuit)
        /\ Header(out[i])[4] = Len(orders)

\* C2: a text has a metadata section if and only if metadata is non-empty;
\* the section is the title and then exactly one line per key, carrying
\* that key's value, in ascending key order, whatever the order in which
\* the entries were supplied at construction.
C2_MetadataSection ==
    \A i \in DOMAIN out :
        LET t == out[i]
            n == Cardinality(DOMAIN metadata)
        IN  /\ (Len(t) > 1) <=> (DOMAIN metadata # {})
            /\ DOMAIN metadata # {} =>
                /\ Len(t) = n + 2
                /\ t[2] = Line("Metadata:", <<>>, <<>>)
                /\ \A j \in EntryLines(t) :
                    /\ t[j].text = "  - "
                    /\ t[j].key \in DOMAIN metadata
                    /\ t[j].vals = <<metadata[t[j].key]>>
                /\ \A j, k \in EntryLines(t) : j < k => LexLess(t[j].key, t[k].key)
            /\ args # EmptyArgs =>
                {<<t[j].key, t[j].vals[1]>> : j \in EntryLines(t)}
                    = {args.metadata[k] : k \in DOMAIN args.metadata}

\* C2 witness: a text was written for metadata supplied in descending key order
C2_Witness ==
    /\ out # <<>>
    /\ args # EmptyArgs
    /\ Len(args.metadata) = 2
    /\ LexLess(args.metadata[2][1], args.metadata[1][1])

\* C3: all the texts written by successive calls of affichage on the
\* instance are identical.
C3_Idempotent == \A i, j \in DOMAIN out : out[i] = out[j]

\* C3 witness: two calls were made on an instance with metadata whose
\* capacity sum overflows
C3_Witness ==
    /\ Len(out) >= 2
    /\ DOMAIN metadata # {}
    /\ ~PartialSumsFit(rack_capacity)

\* C4: a call of affichage leaves the six fields unchanged, appends one
\* text to standard output, changes nothing else and ends without error.
C4_AffichageFrame ==
    [][calls' # calls =>
          /\ fields' = fields
          /\ Len(out') = Len(out) + 1
          /\ SubSeq(out', 1, Len(out)) = out
          /\ err' = "none"
          /\ UNCHANGED <<build, args, inits, loaded>>]_vars

\* C4 witness: affichage was called on an instance with racks and metadata
C4_Witness ==
    /\ calls >= 1
    /\ rack_capacity # <<>>
    /\ DOMAIN metadata # {}
    /\ adjacency # <<>>

C6_ConstructCopies ==
    /\ ~loaded =>
          \A l \in LayoutInputs, rc \in RackCapacityInputs, md \in MetadataInputs :
              ENABLED ConstructWith(l, rc, md)
    /\ (loaded /\ args # EmptyArgs) =>
          /\ adjacency = args.adjacency
          /\ rack_capacity = args.rack_capacity
          /\ product_circuit = args.product_circuit
          /\ aisles_racks = args.aisles_racks
          /\ orders = args.orders
          /\ DOMAIN metadata = {args.metadata[k][1] : k \in DOMAIN args.metadata}
          /\ \A k \in DOMAIN args.metadata :
                metadata[args.metadata[k][1]] = args.metadata[k][2]
    /\ (loaded /\ calls = 0) => err = "none"

\* C6 witness: an instance built from a ragged adjacency and a negative capacity
C6_Witness ==
    /\ loaded
    /\ args # EmptyArgs
    /\ ~Square(adjacency)
    /\ ~NonNegative(rack_capacity)
    /\ DOMAIN metadata # {}

\* C7: a load whose input has a negative capacity, a non-square adjacency,
\* an order with a product id out of range or a rack in two aisles ends
\* with an InvariantViolation and produces no instance.
C7_LoadRejects ==
    (\/ ~NonNegative(rack_capacity)
     \/ ~Square(adjacency)
     \/ ~ProductIdsInRange(orders, product_circuit)
     \/ ~NoRackInTwoAisles(aisles_racks))
        => (~loaded /\ err = "InvariantViolation")

\* C8: every instance obtained through the loader has a square adjacency,
\* rack ids in aisles_racks that are valid and in at most one aisle, and
\* product ids in orders that are valid.
C8_LoadedInvariants ==
    loaded =>
        /\ Square(adjacency)
        /\ RackIdsInRange(aisles_racks, rack_capacity)
        /\ NoRackInTwoAisles(aisles_racks)
        /\ ProductIdsInRange(orders, product_circuit)

C10_CapacityInt ==
    \A i \in DOMAIN out :
        /\ PartialSumsFit(rack_capacity) =>
              Header(out[i])[2] = ToInt(Sum(rack_capacity))
        /\ ~InInt(Sum(rack_capacity)) =>
              Wide(Header(out[i])[2]) # Sum(rack_capacity)

\* C10 witness: a text was written for capacities whose sum is not an int
C10_Witness == out # <<>> /\ ~InInt(Sum(rack_capacity))

\* C10 witness, second case: a text was written for capacities with a
\* negative entry whose partial sums fit
C10_WitnessNegative ==
    /\ out # <<>>
    /\ ~NonNegative(rack_capacity)
    /\ PartialSumsFit(rack_capacity)

====
